---- MODULE Spec2Model ----
(***************************************************************************)
(* A model of rucola's note extraction pipeline: name_to_id (data/mod.rs)  *)
(* and Note::from_path with its two extractors (data/note.rs), and the     *)
(* concurrent callers of CONFIGURATION.get_or_init (data/note.rs,          *)
(* io/typst_pdf_builder.rs).                                               *)
(*                                                                         *)
(* A Rust String is modelled as a sequence of characters, each character   *)
(* a one-element TLA+ string.  Characters outside ASCII are written by     *)
(* their code point ("U+01F0").  Option<T> is a record [some |-> FALSE] or *)
(* [some |-> TRUE, val |-> v]; Result<T, E> is [ok |-> TRUE, val |-> v] or *)
(* [ok |-> FALSE, err |-> e].                                              *)
(***************************************************************************)
EXTENDS Integers, Sequences, FiniteSets, TLC

VARIABLES
    pc,        \* position of the running call
    nameOrig,  \* name_to_id: the string the run started from
    name,      \* name_to_id: the argument of the current call
    idFirst,   \* name_to_id: the id returned for nameOrig
    id,        \* name_to_id: the id returned by the latest call
    idOp,      \* name_to_id: how `name` was derived from nameOrig
    content,   \* the text of the file, as fs::read_to_string returns it
    fence,     \* which front matter regex ran: "md" or "typ"
    extracted, \* what Note::extract_yaml returned: <<yaml, content>>
    yaml,      \* parse_yaml: its argument, the raw front matter if any
    loaded,    \* what YamlLoader::load_from_str returns for the front matter
    parsed,    \* what Note::parse_yaml returned
    path,      \* from_path: its argument
    file,      \* what fs::read_to_string(path) returns
    root,      \* the syntax tree the parser built for the note's body
    configuration, \* config::CONFIGURATION, an OnceLock<Config>
    result,    \* what Note::from_path returned
    once,      \* the state of the Once that guards CONFIGURATION
    callers,   \* the concurrent callers of CONFIGURATION.get_or_init
    initRuns   \* how often the initializer Config::default has run

idVars == <<nameOrig, name, idFirst, id, idOp>>
splitVars == <<content, fence, extracted>>
yamlVars == <<yaml, loaded, parsed>>
noteVars == <<path, file, root, configuration, result>>
onceVars == <<once, callers, initRuns>>
vars == <<pc, idVars, splitVars, yamlVars, noteVars, onceVars>>

\* ------------------------------------------------------------------ bounds

\* Longest name handed to name_to_id.
MaxNameLen == 3

\* Most lines of a file handed to the front matter split.
MaxLines == 6

\* Most top-level nodes of a note's syntax tree.
MaxNodes == 2

\* Most entries of a `tags` list, and most parts of one entry.
MaxEntries == 2
MaxParts == 3

\* ------------------------------------------------------- Option and Result

None == [some |-> FALSE]
Some(v) == [some |-> TRUE, val |-> v]
Ok(v) == [ok |-> TRUE, val |-> v]
Err(e) == [ok |-> FALSE, err |-> e]

\* A call that panicked instead of returning.
Panic(msg) == [ok |-> FALSE, panic |-> msg]
IsPanic(r) == ~r.ok /\ "panic" \in DOMAIN r
IsErr(r, e) == ~r.ok /\ "err" \in DOMAIN r /\ r.err = e

\* All strings over alphabet S of length at most n.
StringsUpTo(S, n) == UNION {[1..k -> S] : k \in 0..n}

\* ------------------------------------------------------------- characters

\* U+030C COMBINING CARON; U+01F0 is j with caron (it has no precomposed
\* capital), U+01D1 / U+01D2 are O / o with caron.
Caron == "U+030C"

\* unicode_normalization: the canonical decomposition of one character.
decompose(c) ==
    CASE c = "U+01F0" -> <<"j", Caron>>
      [] c = "U+01D1" -> <<"O", Caron>>
      [] c = "U+01D2" -> <<"o", Caron>>
      [] OTHER -> <<c>>

\* unicode_normalization: the primary composite of a starter and a mark.
composable(b, m) == m = Caron /\ b \in {"j", "O", "o"}
composite(b, m) ==
    CASE b = "j" -> "U+01F0"
      [] b = "O" -> "U+01D1"
      [] b = "o" -> "U+01D2"

\* str::nfd(): every character replaced by its canonical decomposition.
RECURSIVE nfd(_)
nfd(s) == IF s = <<>> THEN <<>> ELSE decompose(Head(s)) \o nfd(Tail(s))

\* Canonical composition: a mark composes with the character before it when
\* that character is a starter with a primary composite for the pair.
RECURSIVE recompose(_, _)
recompose(out, rest) ==
    IF rest = <<>> THEN out
    ELSE IF out # <<>> /\ composable(out[Len(out)], Head(rest))
         THEN recompose(SubSeq(out, 1, Len(out) - 1)
                          \o <<composite(out[Len(out)], Head(rest))>>,
                        Tail(rest))
         ELSE recompose(Append(out, Head(rest)), Tail(rest))

\* str::nfc(): decompose, then compose.
nfc(s) == recompose(<<>>, nfd(s))

\* char::to_lowercase.
char_to_lowercase(c) ==
    CASE c = "L" -> "l"
      [] c = "J" -> "j"
      [] c = "O" -> "o"
      [] c = "B" -> "b"
      [] c = "U+01D1" -> "U+01D2"
      [] OTHER -> c

\* str::to_lowercase(): character by character.
to_lowercase(s) == [i \in 1..Len(s) |-> char_to_lowercase(s[i])]

Uppercase == {"L", "J", "O", "B", "U+01D1"}

\* ---------------------------------------------------------- str helpers

\* Whether `pat` occurs in s at index i.
matches_at(s, i, pat) ==
    /\ i >= 1
    /\ i + Len(pat) - 1 <= Len(s)
    /\ SubSeq(s, i, i + Len(pat) - 1) = pat

starts_with(s, pat) == matches_at(s, 1, pat)

contains(s, c) == \E i \in 1..Len(s) : s[i] = c

\* str::replace(from, to): every non-overlapping occurrence, left to right.
RECURSIVE replace(_, _, _)
replace(s, from, to) ==
    IF s = <<>> THEN <<>>
    ELSE IF matches_at(s, 1, from)
         THEN to \o replace(SubSeq(s, Len(from) + 1, Len(s)), from, to)
         ELSE <<Head(s)>> \o replace(Tail(s), from, to)

\* str::split(pat) for a non-empty string pattern: the pieces between the
\* non-overlapping occurrences of pat, left to right.
RECURSIVE split_from(_, _, _)
split_from(s, pat, cur) ==
    IF s = <<>> THEN <<cur>>
    ELSE IF matches_at(s, 1, pat)
         THEN <<cur>> \o split_from(SubSeq(s, Len(pat) + 1, Len(s)), pat, <<>>)
         ELSE split_from(Tail(s), pat, Append(cur, Head(s)))

split(s, pat) == split_from(s, pat, <<>>)

\* str::split([chars]).take(1).collect(): the piece before the first
\* character of `seps`, the whole string when there is none.
RECURSIVE split_take_1(_, _)
split_take_1(s, seps) ==
    IF s = <<>> \/ Head(s) \in seps THEN <<>>
    ELSE <<Head(s)>> \o split_take_1(Tail(s), seps)

\* ------------------------------------------------------------ name_to_id

\* A name_to_id that cuts at '#' only and leaves a file extension in.
name_to_id_hash_only(n) ==
    replace(
        replace(to_lowercase(split_take_1(nfc(n), {"#"})), <<" ">>, <<"-">>),
        <<".", "m", "d">>, <<>>)

\* data::name_to_id.
name_to_id(n) ==
    replace(
        replace(to_lowercase(split_take_1(nfc(n), {"#", "."})), <<" ">>, <<"-">>),
        <<".", "m", "d">>, <<>>)

\* The variables of the other operations, while one of them runs.
IdleId ==
    /\ nameOrig = <<>>
    /\ name = <<>>
    /\ idFirst = <<>>
    /\ id = <<>>
    /\ idOp = "none"

IdleSplit ==
    /\ content = <<>>
    /\ fence = "none"
    /\ extracted = <<>>

IdleYaml ==
    /\ yaml = None
    /\ loaded = Ok(<<>>)
    /\ parsed = Ok(<<>>)

IdleNote ==
    /\ path = <<>>
    /\ file = Ok(<<>>)
    /\ root = <<>>
    /\ configuration = None
    /\ result = Ok(<<>>)

IdleOnce ==
    /\ once = "Incomplete"
    /\ callers = <<>>
    /\ initRuns = 0

\* The characters names are drawn from.
NameChars ==
    {"L", "l", " ", "-", "#", ".", "J", "j", "O", "o",
     Caron, "U+01F0", "U+01D1", "U+01D2"}

\* Anchors and extensions appended to a name.
Suffixes == {<<>>, <<"m", "d">>, <<"L", " ", "#">>, <<"J", ".", Caron>>}

InitId ==
    /\ pc = "id_call"
    /\ nameOrig \in StringsUpTo(NameChars, MaxNameLen)
    /\ name = nameOrig
    /\ idFirst = <<>>
    /\ id = <<>>
    /\ idOp = "orig"
    /\ IdleSplit
    /\ IdleYaml
    /\ IdleNote
    /\ IdleOnce

\* The first call: name_to_id(nameOrig).
IdCall ==
    /\ pc = "id_call"
    /\ id' = name_to_id(name)
    /\ idFirst' = name_to_id(name)
    /\ pc' = "id_returned"
    /\ UNCHANGED <<nameOrig, name, idOp>>
    /\ UNCHANGED <<splitVars, yamlVars, noteVars, onceVars>>

\* The name followed by '#' and an anchor.
IdWithAnchor ==
    /\ pc = "id_returned"
    /\ \E a \in Suffixes : name' = nameOrig \o <<"#">> \o a
    /\ idOp' = "anchor"
    /\ pc' = "id_recall"
    /\ UNCHANGED <<nameOrig, idFirst, id>>
    /\ UNCHANGED <<splitVars, yamlVars, noteVars, onceVars>>

\* The name followed by '.' and an extension.
IdWithExtension ==
    /\ pc = "id_returned"
    /\ \E e \in Suffixes : name' = nameOrig \o <<".">> \o e
    /\ idOp' = "extension"
    /\ pc' = "id_recall"
    /\ UNCHANGED <<nameOrig, idFirst, id>>
    /\ UNCHANGED <<splitVars, yamlVars, noteVars, onceVars>>

\* The decomposed spelling of the name.
IdRespellNfd ==
    /\ pc = "id_returned"
    /\ name' = nfd(nameOrig)
    /\ idOp' = "nfd"
    /\ pc' = "id_recall"
    /\ UNCHANGED <<nameOrig, idFirst, id>>
    /\ UNCHANGED <<splitVars, yamlVars, noteVars, onceVars>>

\* The composed spelling of the name.
IdRespellNfc ==
    /\ pc = "id_returned"
    /\ name' = nfc(nameOrig)
    /\ idOp' = "nfc"
    /\ pc' = "id_recall"
    /\ UNCHANGED <<nameOrig, idFirst, id>>
    /\ UNCHANGED <<splitVars, yamlVars, noteVars, onceVars>>

\* The returned id handed to name_to_id again.
IdAgain ==
    /\ pc = "id_returned"
    /\ name' = id
    /\ idOp' = "again"
    /\ pc' = "id_recall"
    /\ UNCHANGED <<nameOrig, idFirst, id>>
    /\ UNCHANGED <<splitVars, yamlVars, noteVars, onceVars>>

\* The second call: name_to_id(name).
IdRecall ==
    /\ pc = "id_recall"
    /\ id' = name_to_id(name)
    /\ pc' = "id_done"
    /\ UNCHANGED <<nameOrig, name, idFirst, idOp>>
    /\ UNCHANGED <<splitVars, yamlVars, noteVars, onceVars>>

NextId ==
    \/ IdCall
    \/ IdWithAnchor
    \/ IdWithExtension
    \/ IdRespellNfd
    \/ IdRespellNfc
    \/ IdAgain
    \/ IdRecall

SpecId == InitId /\ [][NextId]_vars

\* ----------------------------------------------------------------- C1, C2

\* The id as the documentation of name_to_id describes it, position by
\* position: of the composed name, the characters before the first '#' or
\* '.', each lowercased and each space turned into a dash.
FirstCut(s) ==
    IF \E i \in 1..Len(s) : s[i] \in {"#", "."}
    THEN CHOOSE i \in 1..Len(s) :
             /\ s[i] \in {"#", "."}
             /\ \A j \in 1..(i - 1) : s[j] \notin {"#", "."}
    ELSE Len(s) + 1

DocumentedId(s) ==
    LET n == nfc(s)
    IN  [i \in 1..(FirstCut(n) - 1) |->
            IF n[i] = " " THEN "-" ELSE char_to_lowercase(n[i])]

\* C1: name_to_id returns the NFC-normalised input cut before the first '#'
\* or '.', lowercased, spaces replaced by dashes; so a name, the name with an
\* anchor, the name with an extension, and its NFC and NFD spellings all get
\* the same id.
C1_NameToId ==
    /\ pc \in {"id_returned", "id_done"} => id = DocumentedId(name)
    /\ (pc = "id_done" /\ idOp \in {"anchor", "extension", "nfd", "nfc"})
           => id = idFirst

\* A name with an uppercase letter, a space and a decomposed character got
\* the same id with an extension appended.
C1_Witness ==
    /\ pc = "id_done"
    /\ idOp = "extension"
    /\ nameOrig = <<"L", " ", "j">>
    /\ name = <<"L", " ", "j", ".", "m", "d">>
    /\ id = <<"l", "-", "j">>

\* C2: name_to_id(name_to_id(s)) = name_to_id(s) for every s without '#'
\* and '.'.
C2_Idempotent ==
    (/\ pc = "id_done"
     /\ idOp = "again"
     /\ ~contains(nameOrig, "#")
     /\ ~contains(nameOrig, "."))
        => id = idFirst

\* ------------------------------------------------------ front matter split

\* A regex of the shape  open((.|\n)*)close((.|\n)*) : two literals around a
\* greedy first group that matches any characters, newlines included.
\* MarkdownFile::to_note: "---\n((.|\n)*)\n---\n((.|\n)*)".
MarkdownRegex ==
    [open  |-> <<"-", "-", "-", "\n">>,
     close |-> <<"\n", "-", "-", "-", "\n">>]

\* TypstFile::to_note: "/\*\n---\n((.|\n)*)\n---\n\*/((.|\n)*)".
TypstRegex ==
    [open  |-> <<"/", "*", "\n", "-", "-", "-", "\n">>,
     close |-> <<"\n", "-", "-", "-", "\n", "*", "/">>]

\* The places where a match may start at i and its closing literal at j.
CloseAt(regex, text, i) ==
    {j \in (i + Len(regex.open))..Len(text) : matches_at(text, j, regex.close)}

StartAt(regex, text) ==
    {i \in 1..Len(text) :
        matches_at(text, i, regex.open) /\ CloseAt(regex, text, i) # {}}

Min(S) == CHOOSE x \in S : \A y \in S : x <= y
Max(S) == CHOOSE x \in S : \A y \in S : x >= y

\* Regex::captures: the leftmost match; its greedy first group runs to the
\* last place where the closing literal still matches.  Groups 1 and 3.
captures(regex, text) ==
    IF StartAt(regex, text) = {} THEN None
    ELSE LET i == Min(StartAt(regex, text))
             j == Max(CloseAt(regex, text, i))
         IN  Some([g1 |-> SubSeq(text, i + Len(regex.open), j - 1),
                   g3 |-> SubSeq(text, j + Len(regex.close), Len(text))])

\* Note::extract_yaml.
extract_yaml(regex, text) ==
    LET matches == captures(regex, text)
    IN  IF matches.some
        THEN <<Some(matches.val.g1), matches.val.g3>>
        ELSE <<None, text>>

\* The lines files are made of, joined by "\n".
Lines ==
    {<<"-", "-", "-">>, <<"a">>, <<>>, <<"/", "*">>, <<"*", "/">>}

RECURSIVE join(_, _)
join(ls, sep) ==
    IF ls = <<>> THEN <<>>
    ELSE IF Len(ls) = 1 THEN ls[1]
    ELSE ls[1] \o sep \o join(Tail(ls), sep)

InitSplit ==
    /\ pc = "split_call"
    /\ \E ls \in StringsUpTo(Lines, MaxLines) : content = join(ls, <<"\n">>)
    /\ fence = "none"
    /\ extracted = <<>>
    /\ IdleId
    /\ IdleYaml
    /\ IdleNote
    /\ IdleOnce

\* MarkdownFile::to_note up to the front matter split.
SplitMarkdown ==
    /\ pc = "split_call"
    /\ fence' = "md"
    /\ extracted' = extract_yaml(MarkdownRegex, content)
    /\ pc' = "split_done"
    /\ UNCHANGED content
    /\ UNCHANGED <<onceVars, idVars, yamlVars, noteVars>>

\* TypstFile::to_note up to the front matter split.
SplitTypst ==
    /\ pc = "split_call"
    /\ fence' = "typ"
    /\ extracted' = extract_yaml(TypstRegex, content)
    /\ pc' = "split_done"
    /\ UNCHANGED content
    /\ UNCHANGED <<onceVars, idVars, yamlVars, noteVars>>

NextSplit ==
    \/ SplitMarkdown
    \/ SplitTypst

SpecSplit == InitSplit /\ [][NextSplit]_vars

\* ----------------------------------------------------------------- C5, C6

RegexOf(f) == IF f = "typ" THEN TypstRegex ELSE MarkdownRegex

\* The first place after an opening fence at the start of the file where a
\* closing fence stands.
FirstClose(regex, text) == Min(CloseAt(regex, text, 1))

\* The text starts with a front matter block.
StartsWithBlock(regex, text) ==
    starts_with(text, regex.open) /\ CloseAt(regex, text, 1) # {}

\* What follows the first closing fence.
AfterFirstClose(regex, text) ==
    SubSeq(text, FirstClose(regex, text) + Len(regex.close), Len(text))

HasDashLine(text) ==
    \E i \in 1..Len(split(text, <<"\n">>)) :
        split(text, <<"\n">>)[i] = <<"-", "-", "-">>

\* C5: for a text that starts with a front matter block and whose body has a
\* further `---` line, the metadata is the text between the opening fence
\* and the first closing fence, and the body is all that follows that first
\* closing fence.
C5_FirstClosingFence ==
    (/\ pc = "split_done"
     /\ StartsWithBlock(RegexOf(fence), content)
     /\ HasDashLine(AfterFirstClose(RegexOf(fence), content)))
        => extracted =
             <<Some(SubSeq(content, Len(RegexOf(fence).open) + 1,
                           FirstClose(RegexOf(fence), content) - 1)),
               AfterFirstClose(RegexOf(fence), content)>>

\* C6: a text that does not begin with the opening fence has no metadata
\* and its body is the whole text.
C6_FenceOnlyAtStart ==
    (pc = "split_done" /\ ~starts_with(content, RegexOf(fence).open))
        => extracted = <<None, content>>

\* -------------------------------------------------------------- parse_yaml

\* yaml_rust::Yaml: the values a document is made of.
YString(v) == [kind |-> "String", str |-> v]
YInteger(v) == [kind |-> "Integer", int |-> v]
YArray(v) == [kind |-> "Array", vec |-> v]
YHash(v) == [kind |-> "Hash", hash |-> v]
BadValue == [kind |-> "BadValue"]

\* Yaml::index(&str): the value under a key of a hash, BadValue otherwise.
index(doc, key) ==
    IF doc.kind = "Hash" /\ key \in DOMAIN doc.hash THEN doc.hash[key]
    ELSE BadValue

\* Yaml::as_str and Yaml::as_vec.
as_str(y) == IF y.kind = "String" THEN Some(y.str) ELSE None
as_vec(y) == IF y.kind = "Array" THEN Some(y.vec) ELSE None

Whitespace == {" ", "\n", "\t"}

\* YamlLoader::load_from_str.  The documents of a source are an input of
\* the model (`outcome`: a scan error or the documents read), except that a
\* source with nothing but whitespace holds no document.
load_from_str(source, outcome) ==
    IF \A i \in 1..Len(source) : source[i] \in Whitespace
    THEN Ok(<<>>)
    ELSE outcome

\* The separator of a tag and its subtags inside one entry.
Sep == <<" ", "-", " ">>

\* An expansion that chains each subtag to the part before it.
tags_of_entry_chained(s) ==
    LET parts == split(s, Sep)
    IN  IF Len(parts) = 0 THEN <<>>
        ELSE IF Len(parts) = 1 THEN << <<"#">> \o s >>
        ELSE [i \in 1..(Len(parts) - 1) |->
                 <<"#">> \o parts[i] \o <<"/">> \o parts[i + 1]]

\* Note::parse_yaml, the closure over one entry of `tags`.
tags_of_entry(s) ==
    LET parts == split(s, Sep)
    IN  IF Len(parts) = 0 THEN <<>>
        ELSE IF Len(parts) = 1 THEN << <<"#">> \o s >>
        ELSE [i \in 1..(Len(parts) - 1) |->
                 <<"#">> \o parts[1] \o <<"/">> \o parts[i + 1]]

\* Note::parse_yaml, the chain over the entries: those that are strings,
\* each expanded, in order.
RECURSIVE tags_of_entries(_)
tags_of_entries(entries) ==
    IF entries = <<>> THEN <<>>
    ELSE (IF as_str(Head(entries)).some
          THEN tags_of_entry(as_str(Head(entries)).val)
          ELSE <<>>)
         \o tags_of_entries(Tail(entries))

\* Note::parse_yaml.
parse_yaml(y, outcome) ==
    IF ~y.some THEN Ok(<<None, <<>>>>)
    ELSE LET docs == load_from_str(y.val, outcome)
         IN  IF ~docs.ok THEN Err("MalformedMetadata")
             ELSE IF Len(docs.val) = 0
                  THEN Panic("index out of bounds: docs[0]")
                  ELSE LET doc == docs.val[1]
                           title == as_str(index(doc, "title"))
                           entries == as_vec(index(doc, "tags"))
                       IN  Ok(<<title,
                                tags_of_entries(IF entries.some
                                                THEN entries.val
                                                ELSE <<>>)>>)

\* The parts entries are made of, and entries that are not such a join.
PartStrings == {<<"A">>, <<"B">>}

Entries ==
    {join(ps, Sep) : ps \in UNION {[1..k -> PartStrings] : k \in 1..MaxParts}}
        \cup {<<>>, Sep, <<"A", " ", "-">>, <<"A", " ", "-", " ", "-", " ", "B">>}

EntryValues == {YString(e) : e \in Entries} \cup {YInteger(7)}

\* A hash with the keys that are given.
MakeHash(title, tags) ==
    YHash([k \in (IF title.some THEN {"title"} ELSE {})
                     \cup (IF tags.some THEN {"tags"} ELSE {}) |->
              IF k = "title" THEN title.val ELSE tags.val])

TitleValues == {None, Some(YString(<<"T">>)), Some(YInteger(7))}

TagsValues ==
    {None, Some(YString(<<"A">>))}
        \cup {Some(YArray(es)) : es \in StringsUpTo(EntryValues, MaxEntries)}

Docs ==
    {MakeHash(t, g) : t \in TitleValues, g \in TagsValues}
        \cup {YString(<<"A">>)}

LoaderOutcomes ==
    {Err("ScanError"), Ok(<<>>)}
        \cup {Ok(<<d>>) : d \in Docs}
        \cup {Ok(<<d, MakeHash(Some(YString(<<"U">>)), None)>>) :
                 d \in {YString(<<"A">>), MakeHash(None, None)}}

InitYaml ==
    /\ pc = "yaml_call"
    /\ \/ yaml \in {None, Some(<<>>), Some(<<" ", "\n">>)} /\ loaded = Ok(<<>>)
       \/ yaml = Some(<<"y">>) /\ loaded \in LoaderOutcomes
    /\ parsed = Ok(<<>>)
    /\ IdleId
    /\ IdleSplit
    /\ IdleNote
    /\ IdleOnce

\* A call of Note::parse_yaml.
ParseYaml ==
    /\ pc = "yaml_call"
    /\ parsed' = parse_yaml(yaml, loaded)
    /\ pc' = "yaml_done"
    /\ UNCHANGED <<yaml, loaded>>
    /\ UNCHANGED <<onceVars, idVars, splitVars, noteVars>>

NextYaml == ParseYaml

SpecYaml == InitYaml /\ [][NextYaml]_vars

\* --------------------------------------------------------------------- C9

HasSep(e) == \E i \in 1..Len(e) : matches_at(e, i, Sep)

\* The tags one entry stands for: `#entry` without a separator, else every
\* part after the first paired with the first.
EntryTags(e) ==
    IF ~HasSep(e) THEN << <<"#">> \o e >>
    ELSE LET p == split(e, Sep)
         IN  [i \in 1..(Len(p) - 1) |-> <<"#">> \o p[1] \o <<"/">> \o p[i + 1]]

RECURSIVE ListTags(_)
ListTags(es) ==
    IF es = <<>> THEN <<>>
    ELSE (IF Head(es).kind = "String" THEN EntryTags(Head(es).str) ELSE <<>>)
         \o ListTags(Tail(es))

\* The `tags` list of the first document read, empty when there is none.
TagsList(y, outcome) ==
    IF y.some /\ outcome.ok /\ Len(outcome.val) > 0
       /\ outcome.val[1].kind = "Hash"
       /\ "tags" \in DOMAIN outcome.val[1].hash
       /\ outcome.val[1].hash["tags"].kind = "Array"
    THEN outcome.val[1].hash["tags"].vec
    ELSE <<>>

\* C9: the metadata tags are the entries of the `tags` list expanded one by
\* one, in order: `#entry` for an entry without " - ", and `#p0/p1`, ...,
\* `#p0/pN-1` for an entry of parts p0 .. pN-1; none without a `tags` key.
C9_TagExpansion ==
    (pc = "yaml_done" /\ parsed.ok)
        => parsed.val[2] = ListTags(TagsList(yaml, loaded))

\* ["A - B - A", "B"] was expanded to ["#A/B", "#A/A", "#B"].
C9_Witness ==
    /\ pc = "yaml_done"
    /\ parsed.ok
    /\ TagsList(yaml, loaded) =
         <<YString(<<"A", " ", "-", " ", "B", " ", "-", " ", "A">>),
           YString(<<"B">>)>>
    /\ parsed.val[2] =
         << <<"#", "A", "/", "B">>, <<"#", "A", "/", "A">>, <<"#", "B">> >>

\* ------------------------------------------------------------- std::path

\* The components of a path that name something: "" and "." are skipped.
RECURSIVE normal_components(_)
normal_components(cs) ==
    IF cs = <<>> THEN <<>>
    ELSE IF Head(cs) \in {<<>>, <<".">>} THEN normal_components(Tail(cs))
    ELSE <<Head(cs)>> \o normal_components(Tail(cs))

\* Path::file_name: the last component, unless the path ends in ".." or
\* has no component.
file_name(p) ==
    LET cs == normal_components(split(p, <<"/">>))
    IN  IF cs = <<>> \/ cs[Len(cs)] = <<".", ".">> THEN None
        ELSE Some(cs[Len(cs)])

\* std::path::rsplit_file_at_dot: <<before, after>> the last '.'; a name
\* without a '.', or with its only '.' in front, has no `after`.
rsplit_file_at_dot(f) ==
    IF ~contains(f, ".") THEN <<None, Some(f)>>
    ELSE LET d == Max({i \in 1..Len(f) : f[i] = "."})
         IN  IF d = 1 THEN <<Some(f), None>>
             ELSE <<Some(SubSeq(f, 1, d - 1)), Some(SubSeq(f, d + 1, Len(f)))>>

\* Path::file_stem: before.or(after).
file_stem(p) ==
    IF ~file_name(p).some THEN None
    ELSE LET ba == rsplit_file_at_dot(file_name(p).val)
         IN  IF ba[1].some THEN ba[1] ELSE ba[2]

\* Path::extension: before.and(after).
extension(p) ==
    IF ~file_name(p).some THEN None
    ELSE LET ba == rsplit_file_at_dot(file_name(p).val)
         IN  IF ba[1].some THEN ba[2] ELSE None

\* str::split_whitespace: the non-empty runs between whitespace.
RECURSIVE split_ws_from(_, _)
split_ws_from(s, cur) ==
    IF s = <<>> THEN (IF cur = <<>> THEN <<>> ELSE <<cur>>)
    ELSE IF Head(s) \in Whitespace
         THEN (IF cur = <<>> THEN <<>> ELSE <<cur>>) \o split_ws_from(Tail(s), <<>>)
         ELSE split_ws_from(Tail(s), Append(cur, Head(s)))

split_whitespace(s) == split_ws_from(s, <<>>)

\* char::len_utf8: one byte for ASCII, two for the other characters used
\* here (U+030C, U+01D1, U+01D2, U+01F0).
len_utf8(c) ==
    IF c \in {Caron, "U+01D1", "U+01D2", "U+01F0"} THEN 2 ELSE 1

\* String::len: the length in bytes.
RECURSIVE str_len(_)
str_len(s) == IF s = <<>> THEN 0 ELSE len_utf8(Head(s)) + str_len(Tail(s))

\* ----------------------------------------------------------- syntax trees

\* A node of a syntax tree (comrak's AstNode, typst's SyntaxNode): its kind,
\* the text it carries (a Text node's content, a link's url, an identifier,
\* a string literal's value) and its children.
Node(kind, text, children) ==
    [kind |-> kind, text |-> text, children |-> children]

\* Node::descendants: the node and all below it, in pre-order.
RECURSIVE descendants(_)
RECURSIVE descendants_of_all(_)
descendants(node) == <<node>> \o descendants_of_all(node.children)
descendants_of_all(nodes) ==
    IF nodes = <<>> THEN <<>>
    ELSE descendants(Head(nodes)) \o descendants_of_all(Tail(nodes))

\* The tokens that start with '#', in order.
RECURSIVE starting_with_hash(_)
starting_with_hash(tokens) ==
    IF tokens = <<>> THEN <<>>
    ELSE (IF starts_with(Head(tokens), <<"#">>) THEN <<Head(tokens)>> ELSE <<>>)
         \o starting_with_hash(Tail(tokens))

\* MarkdownFile::to_note, `tags` before the chain: of every Text node, the
\* whitespace separated tokens that start with '#'.
RECURSIVE text_tags(_)
text_tags(nodes) ==
    IF nodes = <<>> THEN <<>>
    ELSE (IF Head(nodes).kind = "Text"
          THEN starting_with_hash(split_whitespace(Head(nodes).text))
          ELSE <<>>)
         \o text_tags(Tail(nodes))

\* A `links` that keeps the url of a plain link as it is written.
RECURSIVE markdown_links_raw(_)
markdown_links_raw(nodes) ==
    IF nodes = <<>> THEN <<>>
    ELSE (CASE Head(nodes).kind = "WikiLink" -> <<name_to_id(Head(nodes).text)>>
            [] Head(nodes).kind = "Link" ->
                 IF ~contains(Head(nodes).text, "/")
                    /\ ~contains(Head(nodes).text, ".")
                 THEN <<Head(nodes).text>>
                 ELSE <<>>
            [] OTHER -> <<>>)
         \o markdown_links_raw(Tail(nodes))

\* MarkdownFile::to_note, `links`: the id of every wikilink, and of every
\* link whose url has neither '/' nor '.'.
RECURSIVE markdown_links(_)
markdown_links(nodes) ==
    IF nodes = <<>> THEN <<>>
    ELSE (CASE Head(nodes).kind = "WikiLink" -> <<name_to_id(Head(nodes).text)>>
            [] Head(nodes).kind = "Link" ->
                 IF ~contains(Head(nodes).text, "/")
                    /\ ~contains(Head(nodes).text, ".")
                 THEN <<name_to_id(Head(nodes).text)>>
                 ELSE <<>>
            [] OTHER -> <<>>)
         \o markdown_links(Tail(nodes))

\* SyntaxNode::cast_first_match: the first child of a kind.
cast_first_match(node, kind) ==
    IF \E i \in 1..Len(node.children) : node.children[i].kind = kind
    THEN Some(node.children[
             Min({i \in 1..Len(node.children) : node.children[i].kind = kind})])
    ELSE None

\* TypstFile::look_ahead.
look_ahead(node, ident) ==
    LET callee == cast_first_match(node, "Ident")
    IN  IF ~callee.some THEN None
        ELSE IF callee.val.text = ident
        THEN LET args == cast_first_match(node, "Args")
             IN  IF ~args.some THEN None
                 ELSE LET str == cast_first_match(args.val, "Str")
                      IN  IF ~str.some THEN None ELSE Some(str.val.text)
        ELSE None

\* TypstFile::traverse_tree, the body of the loop before it recurses: what
\* one child adds to the links and tags.
inspect(child, acc, link_ident, tag_ident) ==
    IF child.kind # "FuncCall" THEN acc
    ELSE IF look_ahead(child, link_ident).some
    THEN [acc EXCEPT !.links = Append(@, look_ahead(child, link_ident).val)]
    ELSE IF look_ahead(child, tag_ident).some
    THEN LET tag == look_ahead(child, tag_ident).val
         IN  [acc EXCEPT !.tags =
                 Append(@, IF starts_with(tag, <<"#">>) THEN tag
                           ELSE <<"#">> \o tag)]
    ELSE acc

\* A walk that looks at the calls it meets but not below them.
RECURSIVE traverse_children_shallow(_, _, _, _)
traverse_children_shallow(children, acc, link_ident, tag_ident) ==
    IF children = <<>> THEN acc
    ELSE traverse_children_shallow(
             Tail(children),
             IF Head(children).kind = "FuncCall"
             THEN inspect(Head(children), acc, link_ident, tag_ident)
             ELSE traverse_children_shallow(Head(children).children, acc,
                                            link_ident, tag_ident),
             link_ident, tag_ident)

\* TypstFile::traverse_tree: acc is the pair of vectors it pushes to.  The
\* vectors are passed by reference: the test on acc has TLC compute them
\* when the walk of a node starts, as the code does, and not when the last
\* node has been seen.
RECURSIVE traverse_tree(_, _, _, _)
RECURSIVE traverse_children(_, _, _, _)
traverse_tree(node, acc, link_ident, tag_ident) ==
    IF DOMAIN acc = {"links", "tags"}
    THEN traverse_children(node.children, acc, link_ident, tag_ident)
    ELSE acc
traverse_children(children, acc, link_ident, tag_ident) ==
    IF children = <<>> THEN acc
    ELSE traverse_children(
             Tail(children),
             traverse_tree(Head(children),
                           inspect(Head(children), acc, link_ident, tag_ident),
                           link_ident, tag_ident),
             link_ident, tag_ident)

\* TypstFile::to_note, `links`: the file stem of every link that has one.
RECURSIVE typst_links(_)
typst_links(links) ==
    IF links = <<>> THEN <<>>
    ELSE (IF file_stem(Head(links)).some
          THEN <<file_stem(Head(links)).val>>
          ELSE <<>>)
         \o typst_links(Tail(links))

\* ---------------------------------------------------------------- to_note

\* config::Config::default(), the two typst function identifiers.
Config_default ==
    [link_function |-> <<"l", "i", "n", "k">>,
     tag_function  |-> <<"t", "a", "g">>]

\* OnceLock::get_or_init: the cell after the call.
get_or_init(cell, init) == IF cell.some THEN cell ELSE Some(init)

\* A display name that is always the file stem.
display_name_stem_only(p, title) ==
    IF ~file_stem(p).some THEN Err("NoteNameCannotBeRead")
    ELSE Ok(file_stem(p).val)

\* to_note, `display_name`: the title, else the file stem; the stem is read
\* (and may fail) before title.unwrap_or looks at the title.
display_name(p, title) ==
    IF ~file_stem(p).some THEN Err("NoteNameCannotBeRead")
    ELSE Ok(IF title.some THEN title.val ELSE file_stem(p).val)

\* to_note, `name`: the file stem.
note_name(p) ==
    IF ~file_stem(p).some THEN Err("NoteNameCannotBeRead")
    ELSE Ok(file_stem(p).val)

\* MarkdownFile::to_note, the Note it returns: title and tags are what
\* parse_yaml returned, r the tree of the body, body the text after the
\* front matter.  The `path` field (the answer of the file system to
\* canonicalize) is not carried.
markdown_note(p, title, tags, r, body) ==
    IF ~display_name(p, title).ok THEN display_name(p, title)
    ELSE IF ~note_name(p).ok THEN note_name(p)
    ELSE Ok([display_name |-> display_name(p, title).val,
             name |-> note_name(p).val,
             tags |-> text_tags(descendants(r)) \o tags,
             links |-> markdown_links(descendants(r)),
             words |-> Len(split_whitespace(body)),
             characters |-> str_len(body)])

\* TypstFile::to_note, the Note it returns: tags are the metadata tags the
\* tree walk pushes to, config the configuration it reads.
typst_note(p, title, tags, r, body, config) ==
    LET found == traverse_tree(r, [links |-> <<>>, tags |-> tags],
                               config.link_function, config.tag_function)
    IN  IF ~display_name(p, title).ok THEN display_name(p, title)
        ELSE IF ~note_name(p).ok THEN note_name(p)
        ELSE Ok([display_name |-> display_name(p, title).val,
                 name |-> note_name(p).val,
                 tags |-> found.tags,
                 links |-> typst_links(found.links),
                 words |-> Len(split_whitespace(body)),
                 characters |-> str_len(body)])

\* Note::from_path, the match on the extension: the extractor that runs, or
\* the error of a path without an extension.
filetype(p) ==
    IF ~extension(p).some THEN Err("UnhandledFiletype")
    ELSE IF extension(p).val = <<"m", "d">> THEN Ok("MarkdownFile")
    ELSE IF extension(p).val = <<"t", "y", "p">> THEN Ok("TypstFile")
    ELSE Ok("MarkdownFile")

\* ------------------------------------------------------------ the inputs

Paths ==
    {<<"L", ".", "m", "d">>, <<"L", ".", "t", "y", "p">>,
     <<"L", ".", "t", "x", "t">>, <<"L">>, <<".", "m", "d">>, <<"L", ".">>,
     <<"d", "/", "L", " ", "j", ".", "t", "y", "p">>,
     <<".", ".">>, <<"/">>, <<>>}

Dashes == <<"-", "-", "-">>

Texts ==
    {join(<< <<"a", " ", "#", "x">> >>, <<"\n">>),
     join(<<Dashes, <<"y">>, Dashes, <<"a", " ", " ", "b", Caron>>, <<>>>>,
          <<"\n">>),
     join(<<Dashes, <<"y">>, Dashes, <<"a">>, Dashes, <<"b">> >>, <<"\n">>),
     join(<< <<"/", "*">>, Dashes, <<"y">>, Dashes, <<"*", "/">>, <<"a", " ", "b">> >>,
          <<"\n">>),
     join(<<Dashes, <<>>, Dashes, <<"a">> >>, <<"\n">>),
     join(<< <<"a">>, Dashes, <<"y">>, Dashes, <<"b">> >>, <<"\n">>)}

Files == {Err("FileUnreadable")} \cup {Ok(t) : t \in Texts}

TwoTags ==
    YArray(<<YString(<<"A", " ", "-", " ", "B">>), YString(<<"#", "x">>)>>)

NoteOutcomes ==
    {Err("ScanError"), Ok(<<>>), Ok(<<YString(<<"A">>)>>),
     Ok(<<MakeHash(Some(YInteger(7)), None)>>),
     Ok(<<MakeHash(None, Some(TwoTags))>>),
     Ok(<<MakeHash(Some(YString(<<"T">>)), Some(TwoTags))>>)}

Configurations ==
    {None,
     Some([link_function |-> <<"r", "e", "f">>,
           tag_function |-> <<"t", "a", "g">>])}

Leaf(kind, text) == Node(kind, text, <<>>)

\* What comrak builds for one piece of Markdown.
ComrakBlocks ==
    {Leaf("Text", <<"#", "x", " ", "a", "\n", "#", "y">>),
     Node("WikiLink", <<"L", " ", "J", Caron, "#", "L">>,
          <<Leaf("Text", <<"#", "w">>)>>),
     Node("Link", <<"B">>, <<Leaf("Text", <<"b">>)>>),
     Node("Emph", <<>>,
          <<Leaf("Text", <<"a", "#", "x">>),
            Leaf("Link", <<"d", "/", "B">>),
            Leaf("Link", <<"B", ".", "m", "d">>)>>)}

ComrakRoots ==
    {Node("Document", <<>>, bs) : bs \in StringsUpTo(ComrakBlocks, MaxNodes)}

\* A typst call  f(args).
Call(f, args) ==
    Node("FuncCall", <<>>, <<Leaf("Ident", f), Node("Args", <<>>, args)>>)

\* What typst_syntax builds for one piece of markup.
TypstBlocks ==
    {Call(<<"l", "i", "n", "k">>, <<Leaf("Str", <<"B">>)>>),
     Call(<<"l", "i", "n", "k">>,
          <<Leaf("Str", <<"d", "/", "L", " ", "j", ".", "t", "y", "p">>)>>),
     Call(<<"l", "i", "n", "k">>, <<Leaf("Str", <<".", ".">>)>>),
     Call(<<"r", "e", "f">>, <<Leaf("Str", <<"B", "#", "a">>)>>),
     Call(<<"t", "a", "g">>, <<Leaf("Str", <<"x">>)>>),
     Call(<<"t", "a", "g">>, <<Leaf("Str", <<"#", "y">>)>>),
     Call(<<"f">>,
          <<Node("ContentBlock", <<>>,
                 <<Leaf("Text", <<"#", "n">>),
                   Call(<<"l", "i", "n", "k">>, <<>>),
                   Call(<<"l", "i", "n", "k">>,
                        <<Leaf("Str", <<"b", ".", "c", ".", "d">>)>>)>>)>>)}

TypstRoots ==
    {Node("Markup", <<>>, bs) : bs \in StringsUpTo(TypstBlocks, MaxNodes)}

InitNote ==
    /\ pc = "from_path"
    /\ path \in Paths
    /\ file \in Files
    /\ loaded \in NoteOutcomes
    /\ configuration \in Configurations
    /\ root = <<>>
    /\ result = Ok(<<>>)
    /\ yaml = None
    /\ parsed = Ok(<<>>)
    /\ IdleId
    /\ IdleSplit
    /\ IdleOnce

\* ------------------------------------------------------- Note::from_path

\* Note::from_path: the extension decides the extractor, or the error.
FromPath ==
    /\ pc = "from_path"
    /\ IF ~filetype(path).ok
       THEN result' = filetype(path) /\ pc' = "done"
       ELSE /\ pc' = IF filetype(path).val = "TypstFile" THEN "typ_read"
                     ELSE "md_read"
            /\ UNCHANGED result
    /\ UNCHANGED <<path, file, root, configuration>>
    /\ UNCHANGED <<onceVars, idVars, splitVars, yamlVars>>

\* MarkdownFile::to_note: the file is read and its front matter split off.
MarkdownRead ==
    /\ pc = "md_read"
    /\ IF ~file.ok
       THEN result' = file /\ pc' = "done" /\ UNCHANGED splitVars
       ELSE /\ content' = file.val
            /\ fence' = "md"
            /\ extracted' = extract_yaml(MarkdownRegex, file.val)
            /\ pc' = "md_parse"
            /\ UNCHANGED result
    /\ UNCHANGED <<path, file, root, configuration>>
    /\ UNCHANGED <<onceVars, idVars, yamlVars>>

\* MarkdownFile::to_note: comrak parses the body.
MarkdownParse ==
    /\ pc = "md_parse"
    /\ root' \in ComrakRoots
    /\ pc' = "md_yaml"
    /\ UNCHANGED <<path, file, configuration, result>>
    /\ UNCHANGED <<onceVars, idVars, splitVars, yamlVars>>

\* MarkdownFile::to_note: Note::parse_yaml(yaml)?.
MarkdownYaml ==
    /\ pc = "md_yaml"
    /\ yaml' = extracted[1]
    /\ parsed' = parse_yaml(extracted[1], loaded)
    /\ IF ~parse_yaml(extracted[1], loaded).ok
       THEN result' = parse_yaml(extracted[1], loaded) /\ pc' = "done"
       ELSE pc' = "md_note" /\ UNCHANGED result
    /\ UNCHANGED <<path, file, root, configuration, loaded>>
    /\ UNCHANGED <<onceVars, idVars, splitVars>>

\* MarkdownFile::to_note: the Note is built.
MarkdownNote ==
    /\ pc = "md_note"
    /\ result' = markdown_note(path, parsed.val[1], parsed.val[2], root,
                               extracted[2])
    /\ pc' = "done"
    /\ UNCHANGED <<path, file, root, configuration>>
    /\ UNCHANGED <<onceVars, idVars, splitVars, yamlVars>>

\* TypstFile::to_note: the file is read and its front matter split off.
TypstRead ==
    /\ pc = "typ_read"
    /\ IF ~file.ok
       THEN result' = file /\ pc' = "done" /\ UNCHANGED splitVars
       ELSE /\ content' = file.val
            /\ fence' = "typ"
            /\ extracted' = extract_yaml(TypstRegex, file.val)
            /\ pc' = "typ_yaml"
            /\ UNCHANGED result
    /\ UNCHANGED <<path, file, root, configuration>>
    /\ UNCHANGED <<onceVars, idVars, yamlVars>>

\* TypstFile::to_note: Note::parse_yaml(yaml)?.
TypstYaml ==
    /\ pc = "typ_yaml"
    /\ yaml' = extracted[1]
    /\ parsed' = parse_yaml(extracted[1], loaded)
    /\ IF ~parse_yaml(extracted[1], loaded).ok
       THEN result' = parse_yaml(extracted[1], loaded) /\ pc' = "done"
       ELSE pc' = "typ_parse" /\ UNCHANGED result
    /\ UNCHANGED <<path, file, root, configuration, loaded>>
    /\ UNCHANGED <<onceVars, idVars, splitVars>>

\* TypstFile::to_note: typst_syntax parses the body.
TypstParse ==
    /\ pc = "typ_parse"
    /\ root' \in TypstRoots
    /\ pc' = "typ_note"
    /\ UNCHANGED <<path, file, configuration, result>>
    /\ UNCHANGED <<onceVars, idVars, splitVars, yamlVars>>

\* TypstFile::to_note: the configuration is read (and set, if it was not),
\* the tree is walked and the Note is built.
TypstNote ==
    /\ pc = "typ_note"
    /\ configuration' = get_or_init(configuration, Config_default)
    /\ result' = typst_note(path, parsed.val[1], parsed.val[2], root,
                            extracted[2],
                            get_or_init(configuration, Config_default).val)
    /\ pc' = "done"
    /\ UNCHANGED <<path, file, root>>
    /\ UNCHANGED <<onceVars, idVars, splitVars, yamlVars>>

NextNote ==
    \/ FromPath
    \/ MarkdownRead
    \/ MarkdownParse
    \/ MarkdownYaml
    \/ MarkdownNote
    \/ TypstRead
    \/ TypstYaml
    \/ TypstParse
    \/ TypstNote

SpecNote == InitNote /\ [][NextNote]_vars

\* --------------------------------------------------- C3, C4, C7, C8, C10

\* A call of from_path that returned a Note.
Returned == pc = "done" /\ result.ok

IsTypst == filetype(path) = Ok("TypstFile")

\* C3: Note::from_path never returns UnhandledFiletype; a path with another
\* extension, or with none, is handed to the Markdown extractor.
C3_NeverUnhandledFiletype ==
    pc = "done" => ~IsErr(result, "UnhandledFiletype")

\* C4: when the path has no file stem, from_path fails with
\* NoteNameCannotBeRead and with no other error.
C4_NoStemNoteNameCannotBeRead ==
    (pc = "done" /\ ~file_stem(path).some)
        => IsErr(result, "NoteNameCannotBeRead")

\* The tags the scan of the body finds, in document order: for Markdown the
\* '#' tokens of the text nodes, for Typst what the tree walk pushes.
ScannedTags ==
    IF IsTypst
    THEN traverse_tree(root, [links |-> <<>>, tags |-> <<>>],
                       configuration.val.link_function,
                       configuration.val.tag_function).tags
    ELSE text_tags(descendants(root))

\* C7: for both formats the tags of the Note are the text-scanned tags
\* followed by the metadata tags, nothing removed.
C7_ScannedThenMetadataTags ==
    Returned => result.val.tags = ScannedTags \o parsed.val[2]

\* No uppercase letter, no space, no '#', no '.'.
Canonical(l) ==
    \A i \in 1..Len(l) : l[i] \notin Uppercase \cup {" ", "#", "."}

\* C8, as claimed: every entry of Note.links, of either extractor, is in
\* canonical form.
C8_LinksCanonical ==
    Returned => \A i \in 1..Len(result.val.links) :
                    Canonical(result.val.links[i])

\* The string arguments of the link calls of a Typst tree, in order.
LinkTargets ==
    traverse_tree(root, [links |-> <<>>, tags |-> <<>>],
                  configuration.val.link_function,
                  configuration.val.tag_function).links

\* What is left of a target with its directories and last extension cut.
RECURSIVE Stems(_)
Stems(targets) ==
    IF targets = <<>> THEN <<>>
    ELSE (IF file_stem(Head(targets)).some
          THEN <<file_stem(Head(targets)).val>> ELSE <<>>)
         \o Stems(Tail(targets))

\* C8, amended: every entry of the links of a Markdown note is in canonical
\* form; the entries of a Typst note are the file stems of the link
\* targets, none with a '/', case, spaces and '#' kept.
C8_MarkdownCanonicalTypstStems ==
    Returned =>
        IF IsTypst
        THEN /\ result.val.links = Stems(LinkTargets)
             /\ \A i \in 1..Len(result.val.links) :
                    ~contains(result.val.links[i], "/")
        ELSE \A i \in 1..Len(result.val.links) :
                 Canonical(result.val.links[i])

\* A Typst note whose links keep a capital and a space: the stems of the
\* targets "B" and "d/L j.typ".
C8_Witness ==
    /\ Returned
    /\ IsTypst
    /\ LinkTargets = << <<"B">>, <<"d", "/", "L", " ", "j", ".", "t", "y", "p">> >>
    /\ result.val.links = << <<"B">>, <<"L", " ", "j">> >>

\* The front matter that was found holds a title that is a string.
HasStringTitle ==
    /\ extracted[1].some
    /\ loaded.ok
    /\ Len(loaded.val) > 0
    /\ loaded.val[1].kind = "Hash"
    /\ "title" \in DOMAIN loaded.val[1].hash
    /\ loaded.val[1].hash["title"].kind = "String"

C11_CountsAfterClosingFence ==
    (Returned /\ StartsWithBlock(RegexOf(fence), content))
        => /\ result.val.characters =
                str_len(AfterFirstClose(RegexOf(fence), content))
           /\ result.val.words =
                Len(split_whitespace(AfterFirstClose(RegexOf(fence), content)))

\* ------------------------------------------- CONFIGURATION.get_or_init

\* Most callers of get_or_init that run at the same time.
MaxCallers == 3

Callers == 1..MaxCallers

\* Who calls CONFIGURATION.get_or_init(Config::default).
CallerKinds == {"TypstFile::to_note", "TypstPdfBuilder::new"}

\* A Once that lets every caller in that does not find it complete.
call_once_claims_unguarded(state) == state # "Complete"

\* Once::call_once_force: of the callers that do not find the Once complete,
\* the one that finds it incomplete runs the closure; the others wait.
call_once_claims(state) == state = "Incomplete"

\* The callers start together; the cell may have been set before.
InitConfig ==
    /\ pc = "concurrent"
    /\ configuration \in Configurations
    /\ once = IF configuration.some THEN "Complete" ELSE "Incomplete"
    /\ callers \in [Callers -> [kind : CallerKinds, at : {"get"},
                                waited : {FALSE}, config : {None}]]
    /\ initRuns = 0
    /\ path = <<>>
    /\ file = Ok(<<>>)
    /\ root = <<>>
    /\ result = Ok(<<>>)
    /\ IdleId
    /\ IdleSplit
    /\ IdleYaml

\* OnceLock::get_or_init, the fast path: self.get() returns the value of a
\* cell that is initialized.
Get(t) ==
    /\ callers[t].at = "get"
    /\ callers' = [callers EXCEPT ![t] =
         IF once = "Complete"
         THEN [@ EXCEPT !.at = "done", !.config = configuration]
         ELSE [@ EXCEPT !.at = "initialize"]]
    /\ UNCHANGED <<once, initRuns, pc, noteVars>>
    /\ UNCHANGED <<idVars, splitVars, yamlVars>>

\* OnceLock::initialize: the caller that claims the Once starts the closure,
\* which calls the initializer Config::default.
Initialize(t) ==
    /\ callers[t].at = "initialize"
    /\ call_once_claims(once)
    /\ once' = "Running"
    /\ initRuns' = initRuns + 1
    /\ callers' = [callers EXCEPT ![t].at = "closure"]
    /\ UNCHANGED <<pc, noteVars>>
    /\ UNCHANGED <<idVars, splitVars, yamlVars>>

\* The closure writes the value into the cell and the Once completes.
Store(t) ==
    /\ callers[t].at = "closure"
    /\ configuration' = Some(Config_default)
    /\ once' = "Complete"
    /\ callers' = [callers EXCEPT ![t].at = "read"]
    /\ UNCHANGED <<initRuns, pc, path, file, root, result>>
    /\ UNCHANGED <<idVars, splitVars, yamlVars>>

\* A caller that did not claim the Once goes on when the Once is complete.
Wake(t) ==
    /\ callers[t].at = "initialize"
    /\ once = "Complete"
    /\ callers' = [callers EXCEPT ![t].at = "read", ![t].waited = TRUE]
    /\ UNCHANGED <<once, initRuns, pc, noteVars>>
    /\ UNCHANGED <<idVars, splitVars, yamlVars>>

\* OnceLock::get_or_init, its last line: the value of the cell is returned.
Read(t) ==
    /\ callers[t].at = "read"
    /\ callers' = [callers EXCEPT ![t].at = "done",
                                  ![t].config = configuration]
    /\ UNCHANGED <<once, initRuns, pc, noteVars>>
    /\ UNCHANGED <<idVars, splitVars, yamlVars>>

NextConfig ==
    \/ \E t \in Callers : Get(t)
    \/ \E t \in Callers : Initialize(t)
    \/ \E t \in Callers : Store(t)
    \/ \E t \in Callers : Wake(t)
    \/ \E t \in Callers : Read(t)

SpecConfig == InitConfig /\ [][NextConfig]_vars

\* -------------------------------------------------------------------- C12

\* C12: under every interleaving of the callers the initializer runs at
\* most once, and every caller that has returned holds the value of the
\* cell, the same for all of them.
C12_InitializedOnce ==
    pc = "concurrent" =>
        /\ initRuns <= 1
        /\ \A t \in Callers :
               callers[t].at = "done" =>
                   /\ callers[t].config.some
                   /\ callers[t].config = configuration
        /\ \A t, u \in Callers :
               (callers[t].at = "done" /\ callers[u].at = "done")
                   => callers[t].config = callers[u].config

\* A Typst extraction and a TypstPdfBuilder::new that both found the cell
\* empty: one ran the initializer, the other waited, both have returned.
C12_Witness ==
    /\ pc = "concurrent"
    /\ initRuns = 1
    /\ \E t, u \in Callers :
         /\ callers[t].kind = "TypstFile::to_note"
         /\ callers[u].kind = "TypstPdfBuilder::new"
         /\ callers[t].at = "done" /\ callers[u].at = "done"
         /\ callers[t].waited # callers[u].waited
         /\ callers[t].config = Some(Config_default)

\* ------------------------------------------- TypstFile::traverse_tree

\* The identifiers the configuration may name: the defaults, another link
\* function, and one function for both.
WalkConfigs ==
    {[link_function |-> l, tag_function |-> <<"t", "a", "g">>] :
        l \in {<<"l", "i", "n", "k">>, <<"r", "e", "f">>, <<"t", "a", "g">>}}

\* What typst_syntax builds for one piece of markup: calls with and without
\* a string argument, below calls that match and calls that do not.
WalkBlocks ==
    {Leaf("Text", <<"#", "n">>),
     Call(<<"l", "i", "n", "k">>, <<Leaf("Str", <<"B">>)>>),
     Call(<<"r", "e", "f">>, <<Leaf("Int", <<"1">>), Leaf("Str", <<"C">>),
                               Leaf("Str", <<"D">>)>>),
     Call(<<"t", "a", "g">>, <<Leaf("Str", <<"#", "y">>)>>),
     Call(<<"l", "i", "n", "k">>, <<>>),
     Call(<<"l", "i", "n", "k">>,
          <<Leaf("Str", <<"E">>),
            Call(<<"t", "a", "g">>, <<Leaf("Str", <<"x">>)>>)>>),
     Call(<<"f">>,
          <<Node("ContentBlock", <<>>,
                 <<Node("Strong", <<>>,
                        <<Call(<<"r", "e", "f">>, <<Leaf("Str", <<"G">>)>>)>>),
                   Call(<<"t", "a", "g">>,
                        <<Call(<<"l", "i", "n", "k">>,
                               <<Leaf("Str", <<"H">>)>>)>>)>>)>>),
     Node("FuncCall", <<>>,
          <<Node("FieldAccess", <<>>, <<Leaf("Ident", <<"t", "a", "g">>)>>),
            Node("Args", <<>>, <<Leaf("Str", <<"z">>)>>)>>)}

WalkRoots ==
    {Node("Markup", <<>>, bs) : bs \in StringsUpTo(WalkBlocks, MaxNodes)}

\* The tags the walk starts with: those of the front matter.
WalkTags == {<<>>, << <<"#", "m">> >>}

InitWalk ==
    /\ pc = "walk_call"
    /\ root \in WalkRoots
    /\ configuration \in {Some(c) : c \in WalkConfigs}
    /\ parsed \in {Ok(<<None, tags>>) : tags \in WalkTags}
    /\ result = Ok(<<>>)
    /\ path = <<>>
    /\ file = Ok(<<>>)
    /\ yaml = None
    /\ loaded = Ok(<<>>)
    /\ IdleId
    /\ IdleSplit
    /\ IdleOnce

\* TypstFile::to_note: the call of traverse_tree on the root; result holds
\* the two vectors after it.
Walk ==
    /\ pc = "walk_call"
    /\ result' = Ok(traverse_tree(root,
                                  [links |-> <<>>, tags |-> parsed.val[2]],
                                  configuration.val.link_function,
                                  configuration.val.tag_function))
    /\ pc' = "walk_done"
    /\ UNCHANGED <<path, file, root, configuration>>
    /\ UNCHANGED <<onceVars, idVars, splitVars, yamlVars>>

NextWalk == Walk

SpecWalk == InitWalk /\ [][NextWalk]_vars

\* -------------------------------------------------------------------- C13

IsFuncCall(n) == n.kind = "FuncCall"
IsArgs(n) == n.kind = "Args"
IsStr(n) == n.kind = "Str"

\* The function calls of a tree, at any depth below its root, in document
\* order.
CallsOf(r) == SelectSeq(Tail(descendants(r)), IsFuncCall)

\* The call starts with the identifier.
LeadingIdentIs(call, ident) ==
    /\ call.children # <<>>
    /\ Head(call.children).kind = "Ident"
    /\ Head(call.children).text = ident

\* The string literals among the arguments of a call, in order.
StringArguments(call) ==
    IF SelectSeq(call.children, IsArgs) = <<>> THEN <<>>
    ELSE SelectSeq(Head(SelectSeq(call.children, IsArgs)).children, IsStr)

\* What a call adds to the links: the first string argument of a call of
\* the link function.
LinkOf(call, config) ==
    IF LeadingIdentIs(call, config.link_function)
       /\ StringArguments(call) # <<>>
    THEN <<Head(StringArguments(call)).text>>
    ELSE <<>>

\* What a call adds to the tags: the first string argument of a call of the
\* tag function that is no link, with a '#' in front if it has none.
TagOf(call, config) ==
    IF /\ LinkOf(call, config) = <<>>
       /\ LeadingIdentIs(call, config.tag_function)
       /\ StringArguments(call) # <<>>
    THEN LET tag == Head(StringArguments(call)).text
         IN  <<IF tag # <<>> /\ Head(tag) = "#" THEN tag ELSE <<"#">> \o tag>>
    ELSE <<>>

RECURSIVE LinksOf(_, _)
LinksOf(calls, config) ==
    IF calls = <<>> THEN <<>>
    ELSE LinkOf(Head(calls), config) \o LinksOf(Tail(calls), config)

RECURSIVE TagsOf(_, _)
TagsOf(calls, config) ==
    IF calls = <<>> THEN <<>>
    ELSE TagOf(Head(calls), config) \o TagsOf(Tail(calls), config)

\* C13: the walk looks at every function call of the tree once, at any
\* depth: the links are the first string arguments of the calls of the link
\* function in document order, the tags it adds those of the calls of the
\* tag function that are no links, with '#' in front where there was none;
\* no call adds both a link and a tag.
C13_EveryCallOnce ==
    pc = "walk_done" =>
        /\ result.val.links = LinksOf(CallsOf(root), configuration.val)
        /\ result.val.tags =
             parsed.val[2] \o TagsOf(CallsOf(root), configuration.val)
        /\ \A i \in 1..Len(CallsOf(root)) :
               \/ LinkOf(CallsOf(root)[i], configuration.val) = <<>>
               \/ TagOf(CallsOf(root)[i], configuration.val) = <<>>

\* A walk over a link call with a tag call among its arguments and over
\* calls two and three levels below a call that matches nothing.
C13_Witness ==
    /\ pc = "walk_done"
    /\ Len(CallsOf(root)) = 6
    /\ configuration.val.link_function = <<"l", "i", "n", "k">>
    /\ result.val.links = << <<"E">>, <<"H">> >>
    /\ result.val.tags = << <<"#", "m">>, <<"#", "x">> >>

\* -------------------------------------------------------------------- C14

\* C14: for every front matter that is present, an empty or blank one
\* included, parse_yaml returns a pair of title and tags or the error
\* MalformedMetadata; it does not panic.
C14_ParseYamlTotal ==
    (pc = "yaml_done" /\ yaml.some)
        => \/ parsed.ok
           \/ IsErr(parsed, "MalformedMetadata")

====
